---- MODULE Spec2Model ----
(***************************************************************************)
(* hpp-manipulation: GraphPathValidation (src/src/graph-path-validation.cc) *)
(* and GraphSteeringMethod (src/src/graph-steering-method.cc).              *)
(*                                                                         *)
(* A call is one action: it draws its arguments and the answers of the     *)
(* external collaborators (wrapped path validator, edges' build) from      *)
(* bounded sets, runs the whole function and leaves the arguments and the  *)
(* outcome in the variables.  Acknowledge forgets a finished call.         *)
(***************************************************************************)
EXTENDS Integers, Sequences, FiniteSets

VARIABLES
  ndebug,            \* TRUE: the build compiles assert() out
  constraintGraph_,  \* GraphPathValidation::constraintGraph_ : "null" or "graph"
  pc,                \* "idle", or the operation that has just run
  path,              \* validate: argument path
  reverse,           \* validate: argument reverse
  entry,             \* validate: "validate3" (no report) or "validate4" (report)
  pvOracle,          \* validate: answer of pathValidation_->validate per atomic path
  ret,               \* outcome of the call
  validPart,         \* validate: the caller's validPart after the call
  calls,             \* validate: paths submitted to pathValidation_, in order
  nodes,             \* validate: configurations handed to getNode, in order
  q1,                \* compute: argument q1
  q2,                \* compute: argument q2
  edgesOracle,       \* compute: answer of graph.getEdges
  buildOracle,       \* compute: answer of build per edge
  builds,            \* compute: edges whose build was called, in order
  result,            \* compute: the path returned
  config,            \* getState: argument config
  pathValidation_,   \* GraphPathValidation::pathValidation_ : the wrapped validator
  obstacles,         \* the obstacles the wrapped validator has received, in order
  added              \* the arguments of the addObstacle calls so far, in order

validateVars == <<path, reverse, entry, pvOracle, validPart, calls, nodes>>
computeVars == <<q1, q2, edgesOracle, buildOracle, builds, result>>
selectorVars == <<config>>
obstacleVars == <<pathValidation_, obstacles, added>>
vars == <<ndebug, constraintGraph_, pc, ret, validateVars, computeVars,
          selectorVars, obstacleVars>>

-----------------------------------------------------------------------------
(* Bounds *)

\* paths are defined on sub-intervals of 0..MaxT
MaxT == 2
\* a path has at most MaxSize nodes, atomic and composite paths together
MaxSize == 4
\* getEdges returns at most MaxEdges edges
MaxEdges == 3
\* addObstacle is called at most MaxObstacles times
MaxObstacles == 2

-----------------------------------------------------------------------------
(* Configurations and their classification by the constraint graph *)

\* "unproj" stands for a failed evaluation: Path::operator() returned false
Unproj == "unproj"
\* qAB satisfies the constraints of both states, qNone of neither
Configs == {"qA", "qB", "qAB", "qNone"}
ConfigsU == Configs \cup {Unproj}

\* the states of the graph, by priority
orderedStates == <<"A", "B">>

Satisfies(s, c) ==
  \/ s = "A" /\ c \in {"qA", "qAB"}
  \/ s = "B" /\ c \in {"qB", "qAB"}

NoNode == "logic_error"

RECURSIVE FirstState(_, _)
\* the sequence searched to its end: the last state that contains c
FirstState_last(i, c) ==
  IF i > Len(orderedStates) THEN NoNode
  ELSE IF FirstState(i + 1, c) # NoNode THEN FirstState(i + 1, c)
  ELSE IF Satisfies(orderedStates[i], c) THEN orderedStates[i]
  ELSE NoNode

\* NodeSelector::getState, from rank i of orderedStates_ on: the first state
\* that contains c
FirstState(i, c) ==
  IF i > Len(orderedStates) THEN NoNode
  ELSE IF Satisfies(orderedStates[i], c) THEN orderedStates[i]
  ELSE FirstState(i + 1, c)

\* constraintGraph_->getNode (q): the state of q, or a std::logic_error
getNode(c) == FirstState(1, c)

-----------------------------------------------------------------------------
(* Paths *)

NoPath == [kind |-> "null"]

Atom(t0, t1, q) == [kind |-> "atom", t0 |-> t0, t1 |-> t1, q |-> q]
PathVector(ps) == [kind |-> "vector", paths |-> ps]

Times == 0..MaxT

AtomsOver(cfgs) ==
  UNION { { Atom(a, b, q) : q \in [a..b -> cfgs] } :
          <<a, b>> \in { tr \in Times \X Times : tr[1] <= tr[2] } }

\* Path::operator() (q, t): the configuration at t, or Unproj
Eval(p, t) == p.q[t]

\* Path::extract (interval)
extract(p, s, e) == Atom(s, e, [t \in s..e |-> p.q[t]])

\* Path::copy ()
copy(p) == p

numberPaths(p) == Len(p.paths)
pathAtRank(p, i) == p.paths[i + 1]

RECURSIVE Leaves(_)
Leaves(p) ==
  IF p.kind = "atom" THEN <<p>>
  ELSE IF p.paths = <<>> THEN <<>>
  ELSE Leaves(Head(p.paths)) \o Leaves(PathVector(Tail(p.paths)))

RECURSIVE initial(_)
initial(p) ==
  IF p.kind = "atom" THEN Eval(p, p.t0) ELSE initial(p.paths[1])

RECURSIVE end(_)
end(p) ==
  IF p.kind = "atom" THEN Eval(p, p.t1) ELSE end(p.paths[Len(p.paths)])

-----------------------------------------------------------------------------
(* The wrapped validator pathValidation_ (external): its answer for an     *)
(* atomic path is an oracle, either "fully valid" or a sub-interval [s, e] *)
(* of the path that it hands back as the collision-free part.              *)

Valid == [ok |-> TRUE]
Truncated(s, e) == [ok |-> FALSE, s |-> s, e |-> e]

Verdicts(a) ==
  {Valid} \cup { Truncated(s, e) : <<s, e>> \in
                   { tr \in (a.t0..a.t1) \X (a.t0..a.t1) : tr[1] <= tr[2] } }

\* pathNoCollision after pathValidation_->validate returned false
pathNoCollision(p, v) == extract(p, v.s, v.e)

-----------------------------------------------------------------------------
(* GraphPathValidation::impl_validate *)

\* the outcome of a call: what it returned or how it ended, the caller's
\* validPart, and what it asked of the collaborators
Outcome(r, vp, cs, ns) == [ret |-> r, validPart |-> vp, calls |-> cs, nodes |-> ns]

\* what a dereference of a null constraintGraph_ can end in
UBOutcomes == {"crash", "abort"}

\* the outcomes a build can produce for r
Builds(r) ==
  IF r.ret = "undefined" THEN { [r EXCEPT !.ret = u] : u \in UBOutcomes }
  ELSE {r}

\* getNode (q) with q the configuration of p at t, as logged in nodes
Asked(p, t) == [of |-> p, t |-> t]

\* the return value of operator() ignored
cannotBeProjected_unchecked(c) == FALSE
\* lines 119, 122, 152, 155: if (!path (q, t)) ...
cannotBeProjected(c) == c = Unproj

\* lines 149-150, in the catch block
recovered(p, cs, ns) == Outcome("false", extract(p, p.t0, p.t0), cs, ns)

\* the failure answered as the catch block answers
fatal_swallowed(p, cs, ns) == recovered(p, cs, ns)
\* lines 120, 123, 153, 156: throw std::logic_error (...), validating p
fatal(p, cs, ns) == Outcome("logic_error", NoPath, cs, ns)

\* destNode compared with the origin state
sameStates_destOrigin(origNode, destNode, oldOnode, oldDnode) ==
  origNode = oldOnode /\ destNode = oldOnode
\* one matching end taken as enough
sameStates_either(origNode, destNode, oldOnode, oldDnode) ==
  origNode = oldOnode \/ destNode = oldDnode
\* line 159
sameStates(origNode, destNode, oldOnode, oldDnode) ==
  origNode = oldOnode /\ destNode = oldDnode

\* the zero-length path taken at the end time
nullPath_atEnd(p) == extract(p, p.t1, p.t1)
\* line 168: path->extract (std::make_pair (oldTR.first, oldTR.first))
nullPath(p) == extract(p, p.t0, p.t0)

\* impl_validate (const PathPtr_t&), lines 109-169: path is atomic.
\* cx.pv is the wrapped validator's oracle, cx.graph the value of
\* constraintGraph_; "undefined" is the dereference of a null constraintGraph_.
\* An exception getNode throws outside the try block leaves as it is.
impl_validate_atom(p, cx) ==
  LET v       == cx.pv[p]
      newPath == pathNoCollision(p, v)
      oldPath == p
      qNewI   == Eval(newPath, newPath.t0)
      qNewE   == Eval(newPath, newPath.t1)
      qOldI   == Eval(oldPath, oldPath.t0)
      qOldE   == Eval(oldPath, oldPath.t1)
      origNode == getNode(qNewI)
      destNode == getNode(qNewE)
      oldOnode == getNode(qOldI)
      oldDnode == getNode(qOldE)
      n1 == <<Asked(newPath, newPath.t0)>>
      n2 == Append(n1, Asked(newPath, newPath.t1))
      n3 == Append(n2, Asked(oldPath, oldPath.t0))
      n4 == Append(n3, Asked(oldPath, oldPath.t1))
  IN
  IF v.ok THEN Outcome("true", p, <<p>>, <<>>)
  ELSE IF cannotBeProjected(qNewI) THEN fatal(p, <<p>>, <<>>)
  ELSE IF cx.graph = "null" THEN Outcome("undefined", NoPath, <<p>>, <<>>)
  ELSE IF origNode = NoNode THEN Outcome("logic_error", NoPath, <<p>>, n1)
  ELSE IF cannotBeProjected(qNewE) THEN fatal(p, <<p>>, n1)
  ELSE IF destNode = NoNode THEN recovered(p, <<p>>, n2)
  ELSE IF cannotBeProjected(qOldI) THEN fatal(p, <<p>>, n2)
  ELSE IF oldOnode = NoNode THEN Outcome("logic_error", NoPath, <<p>>, n3)
  ELSE IF cannotBeProjected(qOldE) THEN fatal(p, <<p>>, n3)
  ELSE IF oldDnode = NoNode THEN Outcome("logic_error", NoPath, <<p>>, n4)
  ELSE IF sameStates(origNode, destNode, oldOnode, oldDnode)
    THEN Outcome("false", newPath, <<p>>, n4)
  ELSE Outcome("false", nullPath(p), <<p>>, n4)

RECURSIVE impl_validate(_, _)
RECURSIVE forwardLoop(_, _, _, _)
RECURSIVE reverseLoop(_, _, _, _)

RECURSIVE forwardCopies(_, _, _)
\* the slip of line 75 made in line 89: rank i in place of rank v
forwardCopies_rank_i(p, v, i) ==
  IF v < i THEN <<copy(pathAtRank(p, i))>> \o forwardCopies(p, v + 1, i)
  ELSE <<>>

\* the copies appended before the valid sub-part, lines 88-89:
\* for (v = 0; v < i; v++) p->appendPath (path->pathAtRank(v)->copy())
forwardCopies(p, v, i) ==
  IF v < i THEN <<copy(pathAtRank(p, v))>> \o forwardCopies(p, v + 1, i)
  ELSE <<>>

\* lines 74-75:
\* for (v = n - 1; v > i; v--) p->appendPath (path->pathAtRank(i)->copy())
RECURSIVE reverseCopies(_, _, _)
reverseCopies(p, v, i) ==
  IF v > i THEN <<copy(pathAtRank(p, i))>> \o reverseCopies(p, v - 1, i)
  ELSE <<>>

\* lines 83-95 without the return of line 93 taking effect before the later
\* elements are validated
forwardLoop_noStop(p, i, cx, acc) ==
  IF i = numberPaths(p) THEN Outcome("true", p, acc.calls, acc.nodes)
  ELSE
    LET r  == impl_validate(pathAtRank(p, i), cx)
        cs == acc.calls \o r.calls
        ns == acc.nodes \o r.nodes
        rest == forwardLoop(p, i + 1, cx, [calls |-> cs, nodes |-> ns])
    IN IF r.ret = "true" THEN rest
       ELSE IF r.ret = "false"
         THEN Outcome("false",
                      PathVector(forwardCopies(p, 0, i) \o <<r.validPart>>),
                      rest.calls, rest.nodes)
       ELSE Outcome(r.ret, NoPath, cs, ns)

\* lines 83-95, from index i on; acc is what was asked so far
forwardLoop(p, i, cx, acc) ==
  IF i = numberPaths(p) THEN Outcome("true", p, acc.calls, acc.nodes)
  ELSE
    LET r  == impl_validate(pathAtRank(p, i), cx)
        cs == acc.calls \o r.calls
        ns == acc.nodes \o r.nodes
    IN IF r.ret = "true"
         THEN forwardLoop(p, i + 1, cx, [calls |-> cs, nodes |-> ns])
       ELSE IF r.ret = "false"
         THEN Outcome("false",
                      PathVector(forwardCopies(p, 0, i) \o <<r.validPart>>),
                      cs, ns)
       ELSE Outcome(r.ret, NoPath, cs, ns)

\* lines 69-81, from index i down
reverseLoop(p, i, cx, acc) ==
  IF i < 0 THEN Outcome("true", p, acc.calls, acc.nodes)
  ELSE
    LET r  == impl_validate(pathAtRank(p, i), cx)
        cs == acc.calls \o r.calls
        ns == acc.nodes \o r.nodes
    IN IF r.ret = "true"
         THEN reverseLoop(p, i - 1, cx, [calls |-> cs, nodes |-> ns])
       ELSE IF r.ret = "false"
         THEN Outcome("false",
                      PathVector(reverseCopies(p, numberPaths(p) - 1, i)
                                 \o <<r.validPart>>),
                      cs, ns)
       ELSE Outcome(r.ret, NoPath, cs, ns)

\* impl_validate (const PathVectorPtr_t&), lines 62-100
impl_validate_vector(p, cx) ==
  IF cx.reverse
    THEN IF ~cx.ndebug THEN Outcome("abort", NoPath, <<>>, <<>>)
         ELSE reverseLoop(p, numberPaths(p) - 1, cx, [calls |-> <<>>, nodes |-> <<>>])
    ELSE forwardLoop(p, 0, cx, [calls |-> <<>>, nodes |-> <<>>])

\* impl_validate (const PathPtr_t&), lines 102-170
impl_validate(p, cx) ==
  IF p.kind = "vector" THEN impl_validate_vector(p, cx)
  ELSE impl_validate_atom(p, cx)

-----------------------------------------------------------------------------
(* GraphPathValidation::validate, the three overloads *)

\* the configuration validPart->initial () or ->end () leaves in its result:
\* any configuration when the evaluation fails
Left(c) == IF c = Unproj THEN Configs ELSE {c}

RECURSIVE firstLeaf(_)
firstLeaf(p) == IF p.kind = "atom" THEN p ELSE firstLeaf(p.paths[1])
RECURSIVE lastLeaf(_)
lastLeaf(p) == IF p.kind = "atom" THEN p ELSE lastLeaf(p.paths[Len(p.paths)])

\* lines 39-41, in a build with assertions
postAssertions(r, cx) ==
  LET ai == Asked(firstLeaf(r.validPart), firstLeaf(r.validPart).t0)
      ae == Asked(lastLeaf(r.validPart), lastLeaf(r.validPart).t1)
  IN
  IF cx.graph = "null" THEN {[r EXCEPT !.ret = "abort"]}
  ELSE { IF getNode(qi) = NoNode
           THEN [r EXCEPT !.ret = "logic_error", !.nodes = r.nodes \o <<ai>>]
         ELSE IF getNode(qe) = NoNode
           THEN [r EXCEPT !.ret = "logic_error", !.nodes = r.nodes \o <<ai, ae>>]
         ELSE [r EXCEPT !.nodes = r.nodes \o <<ai, ae>>] :
         <<qi, qe>> \in Left(initial(r.validPart)) \X Left(end(r.validPart)) }

\* validate (path, reverse, validPart), lines 33-43
validate3(p, cx) ==
  UNION { IF r.ret \in {"true", "false"} /\ ~cx.ndebug
            THEN postAssertions(r, cx)
          ELSE {r} : r \in Builds(impl_validate(p, cx)) }

\* validate (path, reverse, validPart, report), lines 45-60
validate4(p, cx) == Builds(impl_validate(p, cx))

-----------------------------------------------------------------------------
(* The arguments of a call *)

\* the atomic paths of composite paths: from time 0 to 2, in qA up to time 1
ElemAtoms ==
  { Atom(0, 2, [t \in 0..2 |-> IF t = 2 THEN c ELSE "qA"]) : c \in ConfigsU }
\* and the answers of the wrapped validator for them: fully valid, or valid
\* up to time 1, or valid from time 1 on
ElemVerdicts == {Valid, Truncated(0, 1), Truncated(1, 2)}

RECURSIVE PathsSized(_)
RECURSIVE SeqsSized(_)
\* the composite paths of n nodes (n = 1: their atomic paths)
PathsSized(n) ==
  IF n = 1 THEN ElemAtoms ELSE { PathVector(s) : s \in SeqsSized(n - 1) }
\* the sequences of paths of n nodes in all
SeqsSized(n) ==
  IF n = 0 THEN {<<>>}
  ELSE UNION { { <<p>> \o s : p \in PathsSized(k), s \in SeqsSized(n - k) } :
               k \in 1..n }

PathVectors == UNION { PathsSized(n) : n \in 2..MaxSize }
Paths == AtomsOver(ConfigsU) \cup PathVectors

LeafSet(p) == { Leaves(p)[i] : i \in 1..Len(Leaves(p)) }

\* the answers the wrapped validator can give for the atomic paths of p
Oracles(p) ==
  IF p.kind = "atom" THEN { [a \in {p} |-> v] : v \in Verdicts(p) }
  ELSE [LeafSet(p) -> ElemVerdicts]

-----------------------------------------------------------------------------
(* GraphSteeringMethod::impl_compute *)

\* the edges of the graph are named by their rank in the list getEdges returns
Edges == 1..MaxEdges

\* what build (path, q1, q2) of an edge does: its return value and whether it
\* assigns its first argument; a build that succeeds assigns it
BuildAnswers == { a \in [ok : BOOLEAN, writes : BOOLEAN] : a.ok => a.writes }
\* the path an edge's build assigns
Built(e, ok) == [kind |-> "built", edge |-> e, complete |-> ok]

\* graph.getState (q): NodeSelector::getState (config)
getState(c) == FirstState(1, c)

RECURSIVE buildLoop(_, _, _, _)
\* the list consumed from its front
buildLoop_front(possibleEdges, bo, p, bs) ==
  IF possibleEdges = <<>> THEN [result |-> NoPath, builds |-> bs]
  ELSE
    LET front == possibleEdges[1]
        p2    == IF bo[front].writes THEN Built(front, bo[front].ok) ELSE p
    IN IF bo[front].ok
         THEN [result |-> p2, builds |-> Append(bs, front)]
       ELSE buildLoop(Tail(possibleEdges), bo, p2, Append(bs, front))

\* the loop going on after a build that succeeded, to return its path at the
\* end
buildLoop_pastSuccess(possibleEdges, bo, p, bs) ==
  IF possibleEdges = <<>> THEN [result |-> NoPath, builds |-> bs]
  ELSE
    LET back == possibleEdges[Len(possibleEdges)]
        p2   == IF bo[back].writes THEN Built(back, bo[back].ok) ELSE p
        rest == buildLoop(SubSeq(possibleEdges, 1, Len(possibleEdges) - 1), bo,
                          p2, Append(bs, back))
    IN IF bo[back].ok THEN [result |-> p2, builds |-> rest.builds] ELSE rest

\* line 89 returning the local variable path
buildLoop_returnsPath(possibleEdges, bo, p, bs) ==
  IF possibleEdges = <<>> THEN [result |-> p, builds |-> bs]
  ELSE
    LET back == possibleEdges[Len(possibleEdges)]
        p2   == IF bo[back].writes THEN Built(back, bo[back].ok) ELSE p
    IN IF bo[back].ok
         THEN [result |-> p2, builds |-> Append(bs, back)]
       ELSE buildLoop(SubSeq(possibleEdges, 1, Len(possibleEdges) - 1), bo, p2,
                      Append(bs, back))

\* lines 83-88: the loop, on what is left of possibleEdges; p is the local
\* variable path, bs the builds called so far
buildLoop(possibleEdges, bo, p, bs) ==
  IF possibleEdges = <<>> THEN [result |-> NoPath, builds |-> bs]
  ELSE
    LET back == possibleEdges[Len(possibleEdges)]
        p2   == IF bo[back].writes THEN Built(back, bo[back].ok) ELSE p
    IN IF bo[back].ok
         THEN [result |-> p2, builds |-> Append(bs, back)]
       ELSE buildLoop(SubSeq(possibleEdges, 1, Len(possibleEdges) - 1), bo, p2,
                      Append(bs, back))

\* the exception left to the caller
caught_rethrown == [ret |-> "logic_error", result |-> NoPath, builds |-> <<>>]
\* lines 75-78: catch (const std::logic_error&) { ... return PathPtr_t (); }
caught == [ret |-> "returned", result |-> NoPath, builds |-> <<>>]

\* lines 68-90. eo is the answer of getEdges for the two states: a list of
\* edges or a std::logic_error
impl_compute(c1, c2, eo, bo) ==
  IF getState(c1) = NoNode \/ getState(c2) = NoNode \/ eo.throws
    THEN caught
  ELSE LET r == buildLoop(eo.edges, bo, NoPath, <<>>)
       IN [ret |-> "returned", result |-> r.result, builds |-> r.builds]

\* what getEdges can answer
NoEdges == [throws |-> FALSE, edges |-> <<>>]
EdgeAnswers ==
  { [throws |-> FALSE, edges |-> [i \in 1..n |-> i]] : n \in 0..MaxEdges }
  \cup { [throws |-> TRUE, edges |-> <<>>] }

-----------------------------------------------------------------------------
(* Actions *)

Init ==
  /\ ndebug \in BOOLEAN
  /\ constraintGraph_ = "null"
  /\ pc = "idle"
  /\ path = NoPath
  /\ reverse = FALSE
  /\ entry = "none"
  /\ pvOracle = <<>>
  /\ ret = "none"
  /\ validPart = NoPath
  /\ calls = <<>>
  /\ nodes = <<>>
  /\ q1 = "none"
  /\ q2 = "none"
  /\ edgesOracle = NoEdges
  /\ buildOracle = <<>>
  /\ builds = <<>>
  /\ result = NoPath
  /\ config = "none"
  /\ pathValidation_ = "pathValidation"
  /\ obstacles = <<>>
  /\ added = <<>>

\* GraphPathValidation::constraintGraph (graph): the setter of constraintGraph_
constraintGraph ==
  /\ pc = "idle"
  /\ constraintGraph_ = "null"
  /\ constraintGraph_' = "graph"
  /\ UNCHANGED <<ndebug, pc, ret, validateVars, computeVars, selectorVars,
                 obstacleVars>>

Context(pv, rev) ==
  [pv |-> pv, reverse |-> rev, graph |-> constraintGraph_, ndebug |-> ndebug]

ValidateCall(p, rev, en, pv) ==
  /\ \E r \in IF en = "validate3" THEN validate3(p, Context(pv, rev))
               ELSE validate4(p, Context(pv, rev)) :
       /\ ret' = r.ret
       /\ validPart' = r.validPart
       /\ calls' = r.calls
       /\ nodes' = r.nodes
  /\ pc' = "validate"
  /\ path' = p
  /\ reverse' = rev
  /\ entry' = en
  /\ pvOracle' = pv
  /\ UNCHANGED <<ndebug, constraintGraph_, computeVars, selectorVars,
                 obstacleVars>>

\* the caller is done with the outcome of the call
Acknowledge ==
  /\ pc # "idle"
  /\ pc' = "idle"
  /\ path' = NoPath
  /\ reverse' = FALSE
  /\ entry' = "none"
  /\ pvOracle' = <<>>
  /\ ret' = "none"
  /\ validPart' = NoPath
  /\ calls' = <<>>
  /\ nodes' = <<>>
  /\ q1' = "none"
  /\ q2' = "none"
  /\ edgesOracle' = NoEdges
  /\ buildOracle' = <<>>
  /\ builds' = <<>>
  /\ result' = NoPath
  /\ config' = "none"
  /\ UNCHANGED <<ndebug, constraintGraph_, obstacleVars>>

\* a call of GraphPathValidation::validate
Validate ==
  /\ pc = "idle"
  /\ \E p \in Paths, rev \in BOOLEAN, en \in {"validate3", "validate4"} :
       \E pv \in Oracles(p) : ValidateCall(p, rev, en, pv)

\* a call of GraphSteeringMethod::impl_compute
Compute ==
  /\ pc = "idle"
  /\ \E c1 \in Configs, c2 \in Configs, eo \in EdgeAnswers :
       \E bo \in [Edges -> BuildAnswers] :
         LET r == impl_compute(c1, c2, eo, bo) IN
         /\ q1' = c1
         /\ q2' = c2
         /\ edgesOracle' = eo
         /\ buildOracle' = bo
         /\ builds' = r.builds
         /\ result' = r.result
         /\ ret' = r.ret
  /\ pc' = "compute"
  /\ UNCHANGED <<ndebug, constraintGraph_, validateVars, selectorVars,
                 obstacleVars>>

\* a call of NodeSelector::getState
GetState ==
  /\ pc = "idle"
  /\ \E c \in Configs :
       /\ config' = c
       /\ ret' = getState(c)
  /\ pc' = "getState"
  /\ UNCHANGED <<ndebug, constraintGraph_, validateVars, computeVars,
                 obstacleVars>>

\* a call of GraphPathValidation::validate on a path that is not composite
ValidateAtomic ==
  /\ pc = "idle"
  /\ \E p \in AtomsOver(ConfigsU), rev \in BOOLEAN,
        en \in {"validate3", "validate4"} :
       \E pv \in Oracles(p) : ValidateCall(p, rev, en, pv)

\* the collision objects handed to addObstacle
CollisionObjects == {"o1", "o2"}

\* the call left out
forwarded_dropped(obs, collisionObject) == obs
\* line 174: pathValidation_->addObstacle (collisionObject), on the obstacles
\* obs the wrapped validator holds
forwarded(obs, collisionObject) == Append(obs, collisionObject)

\* GraphPathValidation::addObstacle, lines 172-175
addObstacle ==
  /\ pc = "idle"
  /\ Len(added) < MaxObstacles
  /\ \E collisionObject \in CollisionObjects :
       /\ obstacles' = forwarded(obstacles, collisionObject)
       /\ added' = Append(added, collisionObject)
  /\ UNCHANGED <<ndebug, constraintGraph_, pathValidation_, pc, ret,
                 validateVars, computeVars, selectorVars>>

Next ==
  \/ constraintGraph
  \/ Validate
  \/ Compute
  \/ GetState
  \/ Acknowledge

Spec == Init /\ [][Next]_vars

\* GraphPathValidation with its obstacles: validate on paths that are not
\* composite, interleaved with addObstacle
NextObstacles ==
  \/ constraintGraph
  \/ addObstacle
  \/ ValidateAtomic
  \/ Acknowledge

SpecObstacles == Init /\ [][NextObstacles]_vars

-----------------------------------------------------------------------------
(* Vocabulary of the properties *)

Validated == pc = "validate"
GraphSet == constraintGraph_ = "graph"
IsAtomic == path.kind = "atom"
IsVector == path.kind = "vector"

\* the wrapped validator reports a fully valid
FullyValid(a) == pvOracle[a].ok
RECURSIVE EveryLeafValid(_)
EveryLeafValid(p) ==
  IF p.kind = "atom" THEN FullyValid(p)
  ELSE \A i \in 1..Len(p.paths) : EveryLeafValid(p.paths[i])

\* the sub-path the wrapped validator hands back for a
TruncOf(a) == [kind |-> "atom", t0 |-> pvOracle[a].s, t1 |-> pvOracle[a].e,
               q |-> [t \in pvOracle[a].s..pvOracle[a].e |-> a.q[t]]]
\* the zero-length path at the start time of a
ZeroAtStart(a) == [kind |-> "atom", t0 |-> a.t0, t1 |-> a.t0,
                   q |-> [t \in {a.t0} |-> a.q[a.t0]]]

\* the state a configuration classifies to, if it can be evaluated and
\* classified
Classifies(c) == c # Unproj /\ \E i \in 1..Len(orderedStates) : Satisfies(orderedStates[i], c)
StateOf(c) ==
  orderedStates[CHOOSE i \in 1..Len(orderedStates) :
                  /\ Satisfies(orderedStates[i], c)
                  /\ \A j \in 1..(i - 1) : ~Satisfies(orderedStates[j], c)]
EndsClassify(p) == Classifies(p.q[p.t0]) /\ Classifies(p.q[p.t1])
StatePair(p) == <<StateOf(p.q[p.t0]), StateOf(p.q[p.t1])>>

\* the truncated sub-path of a and a itself start and end in the same states
SamePair(a) ==
  /\ EndsClassify(TruncOf(a)) /\ EndsClassify(a)
  /\ StatePair(TruncOf(a)) = StatePair(a)
\* they all classify, and the start or the end to a different state
DifferentPair(a) ==
  /\ EndsClassify(TruncOf(a)) /\ EndsClassify(a)
  /\ StatePair(TruncOf(a)) # StatePair(a)

\* the wrapped validator answered as a collision checker does: with the
\* beginning of a, or in reverse with its end
Directed(a) ==
  IF reverse THEN pvOracle[a].e = a.t1 ELSE pvOracle[a].s = a.t0

-----------------------------------------------------------------------------
(* C1 *)

\* C1 (as claimed): whenever the wrapped validator reports every atomic
\* element of the path fully valid, validate returns true and validPart is the
\* input path, whatever the configurations classify to.
\* Violated: in a build with assertions, a composite path validated in
\* reverse stops at the assertion of line 68, and the three-argument validate
\* classifies both ends of validPart in its assertions of lines 40-41.
C1_FullyValidReturnsPath ==
  Validated /\ GraphSet /\ EveryLeafValid(path)
    => ret = "true" /\ validPart = path

-----------------------------------------------------------------------------
(* C2 *)

\* the rank, from 0, of the first element of the composite p that has an
\* atomic path which is not fully valid
FirstInvalid(p) ==
  CHOOSE k \in 0..(Len(p.paths) - 1) :
    /\ ~EveryLeafValid(p.paths[k + 1])
    /\ \A j \in 0..(k - 1) : EveryLeafValid(p.paths[j + 1])

ForwardFailure ==
  Validated /\ GraphSet /\ ~reverse /\ IsVector /\ ~EveryLeafValid(path)

\* C2 (as claimed): in forward validation of a composite path whose element k
\* is the first collision-invalid one, validate returns false and validPart is
\* the composite of the original elements 0..k-1 followed by the wrapped
\* validator's truncated sub-path of element k.
C2_TruncatedElementAsClaimed ==
  ( /\ ForwardFailure
    /\ pathAtRank(path, FirstInvalid(path)).kind = "atom"
    /\ EndsClassify(pathAtRank(path, FirstInvalid(path)))
    /\ EndsClassify(TruncOf(pathAtRank(path, FirstInvalid(path))))
    /\ Directed(pathAtRank(path, FirstInvalid(path))) )
    => /\ ret = "false"
       /\ validPart =
            PathVector(SubSeq(path.paths, 1, FirstInvalid(path))
                       \o <<TruncOf(pathAtRank(path, FirstInvalid(path)))>>)

\* the valid sub-part of a forward validation that returns false
RECURSIVE ForwardValidPart(_)
ForwardValidPart(p) ==
  IF p.kind = "atom"
    THEN IF SamePair(p) THEN TruncOf(p) ELSE ZeroAtStart(p)
  ELSE PathVector(SubSeq(p.paths, 1, FirstInvalid(p))
                  \o <<ForwardValidPart(pathAtRank(p, FirstInvalid(p)))>>)

\* C2 (amended): in forward validation of a composite path whose element k is
\* the first collision-invalid one, validate never returns true: it returns
\* false or ends in a logic error.  When it returns false, validPart is the
\* composite of the original elements 0..k-1, in order, followed by the valid
\* sub-part of element k: for an atomic element the wrapped validator's
\* truncated sub-path if it starts and ends in the states of the element, and
\* the zero-length path at the element's start time otherwise.
C2_ForwardPrefix ==
  ForwardFailure
    => /\ ret \in {"false", "logic_error"}
       /\ ret = "false" => validPart = ForwardValidPart(path)

\* C2 witness: element 1 of a composite path is the first invalid one, its
\* truncated sub-path starts or ends in another state, and validate returned
\* false.
C2_Witness ==
  /\ ForwardFailure
  /\ FirstInvalid(path) = 1
  /\ pathAtRank(path, 1).kind = "atom"
  /\ DifferentPair(pathAtRank(path, 1))
  /\ Directed(pathAtRank(path, 1))
  /\ TruncOf(pathAtRank(path, 1)) # ZeroAtStart(pathAtRank(path, 1))
  /\ pathAtRank(path, 0) # pathAtRank(path, 1)
  /\ ret = "false"

-----------------------------------------------------------------------------
(* C3 *)

Reversed(s) == [i \in 1..Len(s) |-> s[Len(s) + 1 - i]]
\* the atomic paths of the argument in the order of the traversal
Traversal == IF reverse THEN Reversed(Leaves(path)) ELSE Leaves(path)
IsPrefix(s, t) == Len(s) <= Len(t) /\ SubSeq(t, 1, Len(s)) = s
\* p is a part of the atomic path a
IsPartOf(p, a) ==
  /\ p.kind = "atom"
  /\ a.t0 <= p.t0 /\ p.t1 <= a.t1
  /\ \A t \in p.t0..p.t1 : p.q[t] = a.q[t]

\* C3: the atomic paths submitted to the wrapped validator are a prefix of
\* the traversal, every one of them but the last was reported fully valid, and
\* only configurations of submitted paths are classified: after an element
\* that is not fully valid, no later element is submitted or classified.
C3_ShortCircuit ==
  Validated
    => /\ IsPrefix(calls, Traversal)
       /\ \A i \in 1..(Len(calls) - 1) : FullyValid(calls[i])
       /\ \A i \in 1..Len(nodes) :
            \E j \in 1..Len(calls) : IsPartOf(nodes[i].of, calls[j])

\* C3 witness: validate returned false at an element that is not fully valid
\* and is followed, in the traversal, by elements that were not submitted.
C3_Witness ==
  /\ Validated /\ IsVector
  /\ ret = "false"
  /\ calls # <<>>
  /\ ~FullyValid(calls[Len(calls)])
  /\ Len(calls) < Len(Traversal)
  /\ \E i \in (Len(calls) + 1)..Len(Traversal) :
       \A j \in 1..Len(calls) : Traversal[i] # calls[j]

-----------------------------------------------------------------------------
(* C4 - C9: an atomic path that the wrapped validator reports not fully valid *)

AtomNotValid == Validated /\ GraphSet /\ IsAtomic /\ ~FullyValid(path)

\* C4: when the truncated sub-path starts and ends in the states the path
\* starts and ends in, validate returns false and validPart is the wrapped
\* validator's truncated sub-path.
C4_ConsistentTruncation ==
  AtomNotValid /\ SamePair(path)
    => ret = "false" /\ validPart = TruncOf(path)

\* C4 witness: such a truncated sub-path, a beginning of the path longer than
\* its start, was returned.
C4_Witness ==
  /\ AtomNotValid /\ SamePair(path) /\ ~reverse /\ Directed(path)
  /\ TruncOf(path) # ZeroAtStart(path)
  /\ TruncOf(path) # path
  /\ validPart = TruncOf(path)

\* C5: when the configurations at the ends of the path and of the truncated
\* sub-path classify, and the truncated sub-path starts or ends in another
\* state than the path does, validate returns false and validPart is the
\* zero-length path at the start time of the path, in both directions.
C5_StateMismatch ==
  AtomNotValid /\ DifferentPair(path)
    => ret = "false" /\ validPart = ZeroAtStart(path)

\* C5 witness: in reverse, the truncated sub-path is an end of the path that
\* starts in another state, and validate returned the zero-length path at the
\* start time.
C5_Witness ==
  /\ AtomNotValid /\ DifferentPair(path) /\ reverse /\ Directed(path)
  /\ pvOracle[path].s > path.t0
  /\ pvOracle[path].s < pvOracle[path].e
  /\ path.q[path.t1] # path.q[path.t0]
  /\ ret = "false" /\ validPart = ZeroAtStart(path)

DestFails(a) ==
  /\ Classifies(TruncOf(a).q[TruncOf(a).t0])
  /\ TruncOf(a).q[TruncOf(a).t1] # Unproj
  /\ ~Classifies(TruncOf(a).q[TruncOf(a).t1])

\* C7 (as claimed): when classifying the end of the truncated sub-path fails,
\* validate propagates no error: it returns false with the zero-length path at
\* the start time of the path.  Stated where the wrapped validator answers
\* with a beginning, or in reverse an end, of the path, and the path can be
\* evaluated at its start time.
\* Violated: in a build with assertions the three-argument validate
\* classifies the start of that zero-length path, which impl_validate has not
\* classified, and the logic error of getNode leaves validate.
C7_RecoveredWithoutError ==
  AtomNotValid /\ Directed(path) /\ DestFails(path) /\ path.q[path.t0] # Unproj
    => ret = "false" /\ validPart = ZeroAtStart(path)

\* C8: when the truncated sub-path cannot be evaluated at its start time or
\* at its end time, validate ends in a logic error and assigns no validPart.
C8_TruncatedNotProjectable ==
  /\ AtomNotValid
  /\ \/ TruncOf(path).q[TruncOf(path).t0] = Unproj
     \/ TruncOf(path).q[TruncOf(path).t1] = Unproj
  => ret = "logic_error" /\ validPart = NoPath

\* C8 witness: the start of the truncated sub-path classifies, its end cannot
\* be evaluated, and validate ended in a logic error.
C8_Witness ==
  /\ AtomNotValid /\ Directed(path)
  /\ Classifies(TruncOf(path).q[TruncOf(path).t0])
  /\ TruncOf(path).q[TruncOf(path).t1] = Unproj
  /\ ret = "logic_error" /\ validPart = NoPath

OldNotProjectable(a) == a.q[a.t0] = Unproj \/ a.q[a.t1] = Unproj

\* C9 (as claimed): when the path cannot be evaluated at its start time or at
\* its end time, validate ends in a logic error and returns no boolean, also
\* when classifying the end of the truncated sub-path fails.  Stated where the
\* wrapped validator answers with a beginning, or in reverse an end, of the
\* path.
C9_FatalNeverSwallowed ==
  AtomNotValid /\ Directed(path) /\ OldNotProjectable(path)
    => ret = "logic_error"

\* C9 (amended): when the path cannot be evaluated at its start time or at
\* its end time, validate ends in a logic error and assigns no validPart,
\* unless classifying the end of the truncated sub-path fails: the catch block
\* then answers before the path is evaluated, validPart is the zero-length
\* path at the start time and validate does not return true.
C9_FatalUnlessRecovered ==
  AtomNotValid /\ OldNotProjectable(path)
    => \/ ret = "logic_error" /\ validPart = NoPath
       \/ /\ DestFails(path)
          /\ ret \in {"false", "logic_error"}
          /\ validPart = ZeroAtStart(path)

\* C9 witness: both ends of the truncated sub-path classify, the path cannot
\* be evaluated at its end time, and validate ended in a logic error.
C9_Witness ==
  /\ AtomNotValid /\ Directed(path)
  /\ EndsClassify(TruncOf(path))
  /\ path.q[path.t0] # Unproj /\ path.q[path.t1] = Unproj
  /\ ret = "logic_error" /\ validPart = NoPath

-----------------------------------------------------------------------------
(* C10 *)

Computed == pc = "compute"
\* both configurations classify and getEdges answers with a list
EdgesFound ==
  Computed /\ Classifies(q1) /\ Classifies(q2) /\ ~edgesOracle.throws
\* the edges of the list whose build succeeds
Succeeding ==
  { i \in 1..Len(edgesOracle.edges) : buildOracle[edgesOracle.edges[i]].ok }
Greatest(S) == CHOOSE i \in S : \A j \in S : j <= i

\* C10: compute returns the path built by the edge of greatest rank in the
\* list among those whose build succeeds, and no path when there is none.
C10_LastSucceedingEdge ==
  EdgesFound
    => result = IF Succeeding = {} THEN NoPath
                ELSE [kind |-> "built",
                      edge |-> edgesOracle.edges[Greatest(Succeeding)],
                      complete |-> TRUE]

\* C10 witness: with two edges or more, the build of the first edge fails,
\* the build of the second succeeds, and compute returned the path of an edge
\* other than the first.
C10_Witness ==
  /\ EdgesFound
  /\ Len(edgesOracle.edges) >= 2
  /\ ~buildOracle[edgesOracle.edges[1]].ok
  /\ buildOracle[edgesOracle.edges[2]].ok
  /\ result # NoPath
  /\ result.edge = edgesOracle.edges[Greatest(Succeeding)]

-----------------------------------------------------------------------------
(* C11 *)

\* classifying q1 or q2, or getEdges on their states, throws a logic error
LookupFails ==
  Computed /\ (~Classifies(q1) \/ ~Classifies(q2) \/ edgesOracle.throws)

\* C11: when classifying q1 or q2 or querying the edges between their states
\* throws a logic error, compute returns to its caller, with no path, and has
\* called the build of no edge.
C11_LookupErrorGivesNoPath ==
  LookupFails => ret = "returned" /\ result = NoPath /\ builds = <<>>

\* C11 witness: q1 is in no state while the graph has edges whose build
\* would succeed, and compute returned no path without a build.
C11_Witness ==
  /\ Computed
  /\ ~Classifies(q1) /\ Classifies(q2)
  /\ Len(edgesOracle.edges) >= 1
  /\ buildOracle[edgesOracle.edges[Len(edgesOracle.edges)]].ok
  /\ ret = "returned" /\ result = NoPath /\ builds = <<>>

-----------------------------------------------------------------------------
(* C12 *)

Selected == pc = "getState"

\* C12: getState returns the first state, in the order of orderedStates_,
\* whose constraint the configuration satisfies; the answer depends on the
\* sequence and on what the configuration satisfies only.
C12_FirstSatisfiedState ==
  Selected /\ Classifies(config)
    => /\ ret \in { orderedStates[i] : i \in 1..Len(orderedStates) }
       /\ Satisfies(ret, config)
       /\ \A i, j \in 1..Len(orderedStates) :
            orderedStates[j] = ret /\ i < j => ~Satisfies(orderedStates[i], config)

\* C12 witness: the configuration satisfies the constraints of two states and
\* getState returned the one of higher priority.
C12_Witness ==
  /\ Selected
  /\ Satisfies(orderedStates[1], config) /\ Satisfies(orderedStates[2], config)
  /\ ret = orderedStates[1]

-----------------------------------------------------------------------------
(* C13 *)

\* C13: after any interleaving of addObstacle and validate calls the wrapped
\* validator has received the obstacles handed to addObstacle, all of them
\* and in the order of the calls, as if they had been added to it directly;
\* and addObstacle changes neither constraintGraph_ nor pathValidation_.
C13_ObstaclesPassThrough ==
  /\ [](obstacles = added)
  /\ [][added' # added => /\ constraintGraph_' = constraintGraph_
                          /\ pathValidation_' = pathValidation_]_vars

\* C13 witness: two different obstacles were added and validate has run on
\* a wrapped validator that holds both, in the order they were added.
C13_Witness ==
  /\ Validated
  /\ Len(added) = 2 /\ added[1] # added[2]
  /\ obstacles = added

-----------------------------------------------------------------------------
(* C14 *)

\* the rank, from 0, of the element reverse validation of the composite p
\* stops at: the last one that has an atomic path which is not fully valid
LastInvalid(p) ==
  CHOOSE k \in 0..(Len(p.paths) - 1) :
    /\ ~EveryLeafValid(p.paths[k + 1])
    /\ \A j \in (k + 1)..(Len(p.paths) - 1) : EveryLeafValid(p.paths[j + 1])

\* the sequences a and b hold the same elements, each as many times
SameElements(a, b) ==
  /\ Len(a) = Len(b)
  /\ \E f \in [1..Len(a) -> 1..Len(a)] :
       /\ \A j, k \in 1..Len(a) : j # k => f[j] # f[k]
       /\ \A j \in 1..Len(a) : a[f[j]] = b[j]

\* reverse validation of a composite path stops at an atomic element whose
\* ends and whose truncated sub-path's ends classify
ReverseFailure ==
  /\ Validated /\ GraphSet /\ reverse /\ IsVector /\ ~EveryLeafValid(path)
  /\ pathAtRank(path, LastInvalid(path)).kind = "atom"
  /\ EndsClassify(pathAtRank(path, LastInvalid(path)))
  /\ EndsClassify(TruncOf(pathAtRank(path, LastInvalid(path))))
  /\ Directed(pathAtRank(path, LastInvalid(path)))

\* C14 (as claimed): reverse validation of a composite path that stops at
\* element i returns false, and validPart holds the original elements of rank
\* greater than i, each once, followed by the valid sub-part of element i.
\* Stated for a build without assertions; with assertions the call stops at
\* the assertion of line 68.
\* Violated: line 75 appends a copy of element i, not of element v, for each
\* element of rank greater than i.
C14_ReverseCopiesAsClaimed ==
  ReverseFailure /\ ndebug
    => /\ ret = "false"
       /\ validPart.kind = "vector"
       /\ Len(validPart.paths) = Len(path.paths) - LastInvalid(path)
       /\ SameElements(SubSeq(validPart.paths, 1, Len(validPart.paths) - 1),
                       SubSeq(path.paths, LastInvalid(path) + 2, Len(path.paths)))
       /\ validPart.paths[Len(validPart.paths)] \in
            { TruncOf(pathAtRank(path, LastInvalid(path))),
              ZeroAtStart(pathAtRank(path, LastInvalid(path))) }

-----------------------------------------------------------------------------
(* C15 *)

\* C15: compute calls the builds of the edges in decreasing rank from the
\* last edge of the list, each edge once at most, none after a build that
\* succeeded, and no more builds than the list has edges.
C15_BuildsLastToFirst ==
  EdgesFound
    => /\ Len(builds) <= Len(edgesOracle.edges)
       /\ \A k \in 1..Len(builds) :
            builds[k] = edgesOracle.edges[Len(edgesOracle.edges) - k + 1]
       /\ \A k \in 1..(Len(builds) - 1) : ~buildOracle[builds[k]].ok

\* C15 witness: of three edges the build of the last fails, the build of
\* the second succeeds, and the build of the first was not called.
C15_Witness ==
  /\ EdgesFound
  /\ Len(edgesOracle.edges) = 3
  /\ builds = <<edgesOracle.edges[3], edgesOracle.edges[2]>>
  /\ ~buildOracle[builds[1]].ok /\ buildOracle[builds[2]].ok
  /\ buildOracle[edgesOracle.edges[1]].ok

-----------------------------------------------------------------------------
(* C16 *)

\* the wrapped validator answered for every atomic path of p as a collision
\* checker does
AllDirected(p) == \A a \in LeafSet(p) : FullyValid(a) \/ Directed(a)

\* every atomic path of p can be evaluated at its start and end times
EndsEvaluate(p) ==
  \A a \in LeafSet(p) : a.q[a.t0] # Unproj /\ a.q[a.t1] # Unproj

\* the three-argument validate, and impl_validate returned to it
Returned3 ==
  Validated /\ entry = "validate3" /\ validPart # NoPath

\* C16 (as claimed): whenever impl_validate returns to the three-argument
\* validate, its assertions hold: constraintGraph_ is set and classifies the
\* initial and the end configuration of validPart, so that validate returns
\* what impl_validate returned.  Stated with constraintGraph_ set before the
\* call, for paths that can be evaluated at the ends of their atomic paths.
\* Violated: impl_validate classifies neither end of a fully valid path, nor
\* the start of the zero-length path of its catch block in reverse.
C16_PostAssertionsHold ==
  Returned3 /\ GraphSet /\ AllDirected(path) /\ EndsEvaluate(path)
    => /\ ret \in {"true", "false"}
       /\ Classifies(initial(validPart))
       /\ Classifies(end(validPart))

-----------------------------------------------------------------------------
(* C17 *)

NoBuildSucceeded ==
  Computed /\ \A k \in 1..Len(builds) : ~buildOracle[builds[k]].ok

\* C17: when no build succeeded compute returns no path, also when a build
\* that failed assigned the variable path; a path that compute returns is
\* the one assigned by a build that was called and succeeded.
C17_NoPathUnlessBuilt ==
  /\ NoBuildSucceeded => result = NoPath
  /\ Computed /\ result # NoPath
       => /\ \E k \in 1..Len(builds) : builds[k] = result.edge
          /\ buildOracle[result.edge].ok
          /\ result.complete

\* C17 witness: a build failed after it assigned the variable path, no build
\* succeeded, and compute returned no path.
C17_Witness ==
  /\ NoBuildSucceeded
  /\ \E k \in 1..Len(builds) : buildOracle[builds[k]].writes
  /\ result = NoPath

====
